---- MODULE Spec2Model ----
(***************************************************************************)
(* Model of src/flask/app2.py: the posture monitor embedded in the frame   *)
(* generator gen_frames, the calibrate route and the video_feed route.     *)
(*                                                                         *)
(* Time is counted in whole seconds (the values returned by time.time()).  *)
(* Landmark coordinates are normalised and counted in 1/Scale of the frame *)
(* height, pixel rows are computed as the code computes them.              *)
(***************************************************************************)
EXTENDS Integers, FiniteSets, Sequences, TLC

VARIABLES
    keyboard_y,               \* global, line 25
    too_high_start,           \* global, line 27
    wrist_above_elbow_start,  \* global, line 28
    cap,                      \* global, line 33: the camera
    hand_landmarks,           \* local of gen_frames, bound by the loop of line 65
    gen,                      \* the generator behind the video_feed response: none, running, closed
    clock,                    \* the last value time.time() returned
    last,                     \* what the last operation saw and produced
    wae_run,                  \* history: first frame of the current run of true frames (idle start)
    wae_restart,              \* history: first true frame after the last observed-false frame
    th_run,                   \* history: first frame of the current run of too-high frames
    twin,                     \* a second run: same frames, other calibration rows
    twice,                    \* a third run: same frames, every calibrate call made twice
    op,                       \* history: the name of the last operation
    st                        \* the generators taken statement by statement: their position and locals

vars == <<keyboard_y, too_high_start, wrist_above_elbow_start, cap, hand_landmarks,
          gen, clock, last, wae_run, wae_restart, th_run, twin, twice, op, st>>

(***************************************************************************)
(* Program constants                                                       *)
(***************************************************************************)
None == -1                      \* Python's None, for rows and timestamps (all >= 0)
Unbound == -2                   \* a local name no assignment has bound yet
NoReset == None - 2             \* history: no observed-false frame so far
threshold_pixels == 20
alert_time_seconds == 5
wrist_elbow_alert_seconds == 2
FrameHeight == 480              \* h of frame.shape

(***************************************************************************)
(* Bounds of the model                                                     *)
(***************************************************************************)
MaxTime == 6                    \* time.time() stays within 0..MaxTime
MaxIntra == 1                   \* seconds between the two time reads of one frame
Scale == 1000                   \* landmark coordinates are multiples of 1/Scale

WristYs == {350, 375, 417}      \* landmark[0].y of the detected hand, in 1/Scale
ElbowYs == {417}                \* RIGHT_ELBOW y, in 1/Scale
CalibRows == {100, 300}         \* rows passed to /calibrate/<int:y>

Streams == {1, 2}               \* the video_feed responses that can be open together
StreamWristYs == {350, 417}     \* the wrists seen while two responses are open
StreamRows == {300}             \* the rows calibrated while two responses are open

Min(a, b) == IF a < b THEN a ELSE b

(***************************************************************************)
(* int(landmark.y * h): truncation of the scaled coordinate (y >= 0)       *)
(***************************************************************************)
PixelY(y) == (y * FrameHeight) \div Scale

(***************************************************************************)
(* Lines 110-117: the wrist-above-elbow timer, for a frame with pose and   *)
(* hand detected. Returns the new start and whether the alert is drawn.    *)
(***************************************************************************)
WristAboveElbowGe(start, wrist_y, elbow_y, now) ==
    IF wrist_y < elbow_y
    THEN IF start = None
         THEN [start |-> now, alert |-> FALSE]
         ELSE [start |-> start, alert |-> now - start >= wrist_elbow_alert_seconds]
    ELSE [start |-> None, alert |-> FALSE]

WristAboveElbowNoReset(start, wrist_y, elbow_y, now) ==
    IF wrist_y < elbow_y
    THEN IF start = None
         THEN [start |-> now, alert |-> FALSE]
         ELSE [start |-> start, alert |-> now - start > wrist_elbow_alert_seconds]
    ELSE [start |-> start, alert |-> FALSE]

WristAboveElbow(start, wrist_y, elbow_y, now) ==
    IF wrist_y < elbow_y
    THEN IF start = None
         THEN [start |-> now, alert |-> FALSE]
         ELSE [start |-> start, alert |-> now - start > wrist_elbow_alert_seconds]
    ELSE [start |-> None, alert |-> FALSE]

(***************************************************************************)
(* Line 122: the too-high condition, in the scope of keyboard_y            *)
(***************************************************************************)
TooHighConditionVsLine(wrist_y, elbow_y, ky) == wrist_y < ky - threshold_pixels

TooHighCondition(wrist_y, elbow_y, ky) == wrist_y < elbow_y - threshold_pixels

(***************************************************************************)
(* Lines 122-129: the too-high timer, evaluated on the wrist row read from *)
(* hand_landmarks                                                          *)
(***************************************************************************)
TooHigh(start, wrist_y, elbow_y, ky, now) ==
    IF TooHighCondition(wrist_y, elbow_y, ky)
    THEN IF start = None
         THEN [start |-> now, alert |-> FALSE]
         ELSE [start |-> start, alert |-> now - start > alert_time_seconds]
    ELSE [start |-> None, alert |-> FALSE]

(***************************************************************************)
(* Line 121: is the calibrated section entered                             *)
(***************************************************************************)
CalibratedAlways(ky) == TRUE

Calibrated(ky) == ky /= None

(***************************************************************************)
(* Lines 57-136: one iteration of the loop of gen_frames on a frame that   *)
(* was read. s: the globals and the local hand_landmarks; f: what the      *)
(* detectors returned (wrist, elbow: a coordinate or None) and the values  *)
(* of the two time reads.                                                  *)
(***************************************************************************)
LoopBody(s, f) ==
    LET hl   == IF f.wrist /= None THEN f.wrist ELSE s.hand_landmarks   \* lines 64-65
        wae  == IF f.elbow /= None /\ f.wrist /= None                   \* lines 82, 105
                THEN WristAboveElbow(s.wrist_above_elbow_start,
                                     PixelY(f.wrist), PixelY(f.elbow), f.t1)
                ELSE [start |-> s.wrist_above_elbow_start, alert |-> FALSE]
        calib == f.elbow /= None /\ Calibrated(s.keyboard_y)            \* lines 82, 121
        raised == calib /\ hl = Unbound                                 \* line 122
        th   == IF calib /\ ~raised
                THEN TooHigh(s.too_high_start, PixelY(hl), PixelY(f.elbow),
                             s.keyboard_y, f.t2)
                ELSE [start |-> s.too_high_start, alert |-> FALSE]
    IN  [keyboard_y              |-> s.keyboard_y,
         too_high_start          |-> th.start,
         wrist_above_elbow_start |-> wae.start,
         hand_landmarks          |-> hl,
         raised                  |-> raised,
         wae_alert               |-> wae.alert,
         th_alert                |-> th.alert,
         line                    |-> IF calib /\ ~raised THEN s.keyboard_y ELSE None]

(***************************************************************************)
(* Lines 152-156: calibrate(y)                                             *)
(***************************************************************************)
CalibrateToggle(s, y) ==
    [s EXCEPT !.keyboard_y = IF s.keyboard_y = y THEN None ELSE y]

CalibrateResetsTimers(s, y) ==
    [s EXCEPT !.keyboard_y = y, !.too_high_start = None,
              !.wrist_above_elbow_start = None]

Calibrate(s, y) == [s EXCEPT !.keyboard_y = y]

(***************************************************************************)
(* The state of one run as LoopBody and Calibrate take it                  *)
(***************************************************************************)
Globals ==
    [keyboard_y              |-> keyboard_y,
     too_high_start          |-> too_high_start,
     wrist_above_elbow_start |-> wrist_above_elbow_start,
     hand_landmarks          |-> hand_landmarks]

RunInit ==
    [keyboard_y |-> None, too_high_start |-> None, wrist_above_elbow_start |-> None,
     hand_landmarks |-> Unbound, raised |-> FALSE, wae_alert |-> FALSE,
     th_alert |-> FALSE, line |-> None]

\* a run after an operation that is no frame: nothing was drawn
NoOutput(r) ==
    [r EXCEPT !.raised = FALSE, !.wae_alert = FALSE, !.th_alert = FALSE, !.line = None]

\* the record of an operation that processed no frame
NoFrame ==
    [op |-> "none", wrist |-> None, elbow |-> None, t1 |-> None,
     wae_alert |-> FALSE, th_alert |-> FALSE, line |-> None]

\* a stream with no generator: the locals of gen_frames do not exist
Idle ==
    [pc |-> "off", hand_landmarks |-> Unbound, wrist |-> None, elbow |-> None,
     wae_alert |-> FALSE, th_alert |-> FALSE, pt1 |-> None, pt2 |-> None]

\* the name and the argument of an operation
Op(name, arg) == [name |-> name, arg |-> arg]

program == <<keyboard_y, too_high_start, wrist_above_elbow_start, cap, hand_landmarks,
             gen, clock, last>>
history == <<wae_run, wae_restart, th_run>>
runs    == <<twin, twice>>
named   == <<op>>
streams == <<st>>

(***************************************************************************)
(* Lines 24-33: the module's globals; no generator exists yet              *)
(***************************************************************************)
Init ==
    /\ keyboard_y = None
    /\ too_high_start = None
    /\ wrist_above_elbow_start = None
    /\ cap = "None"
    /\ hand_landmarks = Unbound
    /\ gen = "none"
    /\ clock = 0
    /\ last = NoFrame
    /\ wae_run = None
    /\ wae_restart = NoReset
    /\ th_run = None
    /\ twin = RunInit
    /\ twice = RunInit
    /\ op = Op("init", None)
    /\ st = [i \in Streams |-> Idle]

(***************************************************************************)
(* Lines 35-46: ensure_camera; opened tells whether VideoCapture(0) opens  *)
(***************************************************************************)
ensure_camera(c, opened) ==
    IF c /= "opened"
    THEN IF opened THEN [cap |-> "opened", raised |-> FALSE]
                   ELSE [cap |-> "closed", raised |-> TRUE]
    ELSE [cap |-> c, raised |-> FALSE]

(***************************************************************************)
(* Lines 148-150 and 48-50: a client opens /video_feed; the generator      *)
(* starts with fresh locals and calls ensure_camera                        *)
(***************************************************************************)
video_feed(opened) ==
    /\ gen /= "running"
    /\ LET e == ensure_camera(cap, opened)
       IN  /\ cap' = e.cap
           /\ gen' = IF e.raised THEN "closed" ELSE "running"
    /\ hand_landmarks' = Unbound
    /\ last' = NoFrame
    /\ UNCHANGED <<keyboard_y, too_high_start, wrist_above_elbow_start, clock>>

(***************************************************************************)
(* The client goes away: the generator is closed at its yield (line 135)   *)
(***************************************************************************)
close_stream ==
    /\ gen = "running"
    /\ gen' = "closed"
    /\ last' = NoFrame
    /\ UNCHANGED <<keyboard_y, too_high_start, wrist_above_elbow_start, cap,
                   hand_landmarks, clock>>

\* a failed read taken for a frame in which nothing was detected
read_fail_resets(lost, opened) ==
    /\ gen = "running"
    /\ cap' = "opened"
    /\ wrist_above_elbow_start' = None
    /\ too_high_start' = None
    /\ last' = [op |-> "none", wrist |-> None, elbow |-> None, t1 |-> None,
                wae_alert |-> FALSE, th_alert |-> FALSE, line |-> None]
    /\ UNCHANGED <<keyboard_y, hand_landmarks, gen, clock>>

(***************************************************************************)
(* Lines 52-55: cap.read() fails; lost tells whether the camera is no      *)
(* longer opened, opened whether VideoCapture(0) opens it again            *)
(***************************************************************************)
read_fail(lost, opened) ==
    /\ gen = "running"
    /\ LET e == ensure_camera(IF lost THEN "closed" ELSE cap, opened)
       IN  /\ cap' = e.cap
           /\ gen' = IF e.raised THEN "closed" ELSE "running"
    /\ last' = NoFrame
    /\ UNCHANGED <<keyboard_y, too_high_start, wrist_above_elbow_start,
                   hand_landmarks, clock>>

(***************************************************************************)
(* Lines 52-136: one iteration of the loop on a frame that was read        *)
(***************************************************************************)
Measured(wrist, elbow, t1, t2) ==
    [wrist |-> wrist, elbow |-> elbow, t1 |-> t1, t2 |-> t2]

frame(wrist, elbow, t1, t2) ==
    /\ gen = "running"
    /\ LET r == LoopBody(Globals, Measured(wrist, elbow, t1, t2))
       IN  /\ keyboard_y' = r.keyboard_y
           /\ too_high_start' = r.too_high_start
           /\ wrist_above_elbow_start' = r.wrist_above_elbow_start
           /\ hand_landmarks' = r.hand_landmarks
           /\ gen' = IF r.raised THEN "closed" ELSE "running"
           /\ last' = [op |-> IF r.raised THEN "raise" ELSE "frame",
                       wrist |-> wrist, elbow |-> elbow, t1 |-> t1,
                       wae_alert |-> r.wae_alert, th_alert |-> r.th_alert,
                       line |-> r.line]
    /\ clock' = t2
    /\ UNCHANGED cap

(***************************************************************************)
(* Lines 152-156: a client requests /calibrate/<y>                         *)
(***************************************************************************)
calibrate(y) ==
    /\ LET c == Calibrate(Globals, y)
       IN  /\ keyboard_y' = c.keyboard_y
           /\ too_high_start' = c.too_high_start
           /\ wrist_above_elbow_start' = c.wrist_above_elbow_start
           /\ hand_landmarks' = c.hand_landmarks
    /\ last' = NoFrame
    /\ UNCHANGED <<cap, gen, clock>>

(***************************************************************************)
(* What a frame is for the claims, stated on the measurements alone        *)
(***************************************************************************)
BothPresent(wrist, elbow) == wrist /= None /\ elbow /= None

ObservedAbove(wrist, elbow) ==
    BothPresent(wrist, elbow) /\ PixelY(wrist) < PixelY(elbow)

ObservedTooHigh(wrist, elbow) ==
    BothPresent(wrist, elbow) /\ PixelY(wrist) < PixelY(elbow) - threshold_pixels

(***************************************************************************)
(* The history of the frames, kept beside the program                      *)
(*   wae_run:     the first time read of the current unbroken run of       *)
(*                frames with wrist and elbow present and wrist above      *)
(*                elbow, when that run began with the timer idle           *)
(*   wae_restart: NoReset until a frame with both present and the wrist    *)
(*                not above the elbow; None after such a frame; then the   *)
(*                time read of the next frame with the wrist above         *)
(*   th_run:      the second time read of the first frame of the current   *)
(*                unbroken run of calibrated frames with both present and  *)
(*                the wrist more than threshold_pixels above the elbow     *)
(***************************************************************************)
frame_history(wrist, elbow, t1, t2) ==
    /\ wae_run' = IF ObservedAbove(wrist, elbow)
                  THEN IF wae_run /= None THEN wae_run
                       ELSE IF wrist_above_elbow_start = None THEN t1 ELSE None
                  ELSE None
    /\ wae_restart' = IF ObservedAbove(wrist, elbow)
                      THEN IF wae_restart = None THEN t1 ELSE wae_restart
                      ELSE IF BothPresent(wrist, elbow) THEN None ELSE wae_restart
    /\ th_run' = IF keyboard_y /= None /\ ObservedTooHigh(wrist, elbow)
                 THEN IF th_run /= None THEN th_run ELSE t2
                 ELSE None

(***************************************************************************)
(* The program with the history of its frames                              *)
(***************************************************************************)
Next ==
    \/ \E opened \in BOOLEAN : video_feed(opened) /\ UNCHANGED <<history, runs, named, streams>>
    \/ close_stream /\ UNCHANGED <<history, runs, named, streams>>
    \/ \E lost \in BOOLEAN, opened \in BOOLEAN :
          read_fail(lost, opened) /\ UNCHANGED <<history, runs, named, streams>>
    \/ \E wrist \in WristYs \cup {None}, elbow \in ElbowYs \cup {None},
          t1 \in clock..MaxTime :
          \E t2 \in t1..Min(t1 + MaxIntra, MaxTime) :
             frame(wrist, elbow, t1, t2) /\ frame_history(wrist, elbow, t1, t2)
                                         /\ UNCHANGED <<runs, named, streams>>
    \/ \E y \in CalibRows : calibrate(y) /\ UNCHANGED <<history, runs, named, streams>>

Spec == Init /\ [][Next]_vars

(***************************************************************************)
(* The program beside two more runs of it that see the same frames and the *)
(* same failures: twin is calibrated at the same points with rows of its   *)
(* own, twice makes every calibrate call two times                         *)
(***************************************************************************)
NextRuns ==
    \/ \E opened \in BOOLEAN :
          /\ video_feed(opened)
          /\ twin' = NoOutput([twin EXCEPT !.hand_landmarks = Unbound])
          /\ twice' = NoOutput([twice EXCEPT !.hand_landmarks = Unbound])
          /\ UNCHANGED <<history, named, streams>>
    \/ /\ close_stream
       /\ twin' = NoOutput(twin)
       /\ twice' = NoOutput(twice)
       /\ UNCHANGED <<history, named, streams>>
    \/ \E lost \in BOOLEAN, opened \in BOOLEAN :
          /\ read_fail(lost, opened)
          /\ twin' = NoOutput(twin)
          /\ twice' = NoOutput(twice)
          /\ UNCHANGED <<history, named, streams>>
    \/ \E wrist \in WristYs \cup {None}, elbow \in ElbowYs \cup {None},
          t1 \in clock..MaxTime :
          \E t2 \in t1..Min(t1 + MaxIntra, MaxTime) :
             /\ frame(wrist, elbow, t1, t2)
             /\ twin' = LoopBody(twin, Measured(wrist, elbow, t1, t2))
             /\ twice' = LoopBody(twice, Measured(wrist, elbow, t1, t2))
             /\ UNCHANGED <<history, named, streams>>
    \/ \E y \in CalibRows, y2 \in CalibRows :
          /\ calibrate(y)
          /\ twin' = NoOutput(Calibrate(twin, y2))
          /\ twice' = NoOutput(Calibrate(Calibrate(twice, y), y))
          /\ UNCHANGED <<history, named, streams>>

SpecRuns == Init /\ [][NextRuns]_vars

(***************************************************************************)
(* The program with the name of its last operation                         *)
(***************************************************************************)
NextOps ==
    \/ \E opened \in BOOLEAN :
          /\ video_feed(opened)
          /\ op' = Op("video_feed", None)
          /\ UNCHANGED <<history, runs, streams>>
    \/ /\ close_stream
       /\ op' = Op("close", None)
       /\ UNCHANGED <<history, runs, streams>>
    \/ \E lost \in BOOLEAN, opened \in BOOLEAN :
          /\ read_fail(lost, opened)
          /\ op' = Op("read_fail", None)
          /\ UNCHANGED <<history, runs, streams>>
    \/ \E wrist \in WristYs \cup {None}, elbow \in ElbowYs \cup {None},
          t1 \in clock..MaxTime :
          \E t2 \in t1..Min(t1 + MaxIntra, MaxTime) :
             /\ frame(wrist, elbow, t1, t2)
             /\ op' = Op("frame", None)
             /\ UNCHANGED <<history, runs, streams>>
    \/ \E y \in CalibRows :
          /\ calibrate(y)
          /\ op' = Op("calibrate", y)
          /\ UNCHANGED <<history, runs, streams>>

SpecOps == Init /\ [][NextOps]_vars

(***************************************************************************)
(* gen_frames statement by statement, for the video_feed response i.       *)
(* st[i].pc is the line the generator is about to execute:                 *)
(*   off        no generator                                               *)
(*   read       line 52     wae_test   line 111    wae_arm    line 112     *)
(*   wae_sub    line 113    wae_reset  line 117    calib      lines 121-2  *)
(*   th_test    line 123    th_arm     line 124    th_sub     line 125     *)
(*   th_reset   line 129    line_a, line_b  the two loads of keyboard_y of *)
(*   line 131   emit        the yield of line 135                          *)
(* or the exception that ended it. Every step reads or writes at most one  *)
(* global besides the clock.                                               *)
(***************************************************************************)
Ended == {"off", "RuntimeError", "UnboundLocalError", "TypeError"}

atomic == <<hand_landmarks, gen, last>>

At(i, pc) == st[i].pc = pc

Goto(i, pc) == st' = [st EXCEPT ![i].pc = pc]

\* lines 148-150, 48-50: the response is opened, the generator starts
s_open(i, opened) ==
    /\ st[i].pc \in Ended
    /\ LET e == ensure_camera(cap, opened)
       IN  /\ cap' = e.cap
           /\ st' = [st EXCEPT ![i] =
                        [Idle EXCEPT !.pc = IF e.raised THEN "RuntimeError" ELSE "read"]]
    /\ UNCHANGED <<keyboard_y, too_high_start, wrist_above_elbow_start, clock>>
    /\ UNCHANGED <<atomic, history, runs, named>>

\* the client goes away while the generator is suspended at its yield
s_close(i) ==
    /\ At(i, "emit")
    /\ st' = [st EXCEPT ![i] = Idle]
    /\ UNCHANGED <<keyboard_y, too_high_start, wrist_above_elbow_start, cap, clock>>
    /\ UNCHANGED <<atomic, history, runs, named>>

\* lines 52-55: the read fails
s_read_fail(i, lost, opened) ==
    /\ At(i, "read")
    /\ LET e == ensure_camera(IF lost THEN "closed" ELSE cap, opened)
       IN  /\ cap' = e.cap
           /\ st' = IF e.raised THEN [st EXCEPT ![i] = [Idle EXCEPT !.pc = "RuntimeError"]]
                                ELSE st
    /\ UNCHANGED <<keyboard_y, too_high_start, wrist_above_elbow_start, clock>>
    /\ UNCHANGED <<atomic, history, runs, named>>

\* lines 52-110: the read succeeds, the detectors run, the locals are set
s_read(i, wrist, elbow) ==
    /\ At(i, "read")
    /\ st' = [st EXCEPT ![i] =
                [pc |-> IF elbow = None THEN "emit"
                        ELSE IF wrist = None THEN "calib"
                        ELSE IF PixelY(wrist) < PixelY(elbow) THEN "wae_test"
                        ELSE "wae_reset",
                 hand_landmarks |-> IF wrist /= None THEN wrist
                                    ELSE st[i].hand_landmarks,
                 wrist |-> wrist, elbow |-> elbow,
                 wae_alert |-> FALSE, th_alert |-> FALSE,
                 pt1 |-> None, pt2 |-> None]]
    /\ UNCHANGED <<keyboard_y, too_high_start, wrist_above_elbow_start, cap, clock>>
    /\ UNCHANGED <<atomic, history, runs, named>>

\* line 111: if wrist_above_elbow_start is None
s_wae_test(i) ==
    /\ At(i, "wae_test")
    /\ Goto(i, IF wrist_above_elbow_start = None THEN "wae_arm" ELSE "wae_sub")
    /\ UNCHANGED <<keyboard_y, too_high_start, wrist_above_elbow_start, cap, clock>>
    /\ UNCHANGED <<atomic, history, runs, named>>

\* line 112: wrist_above_elbow_start = time.time()
s_wae_arm(i, now) ==
    /\ At(i, "wae_arm")
    /\ wrist_above_elbow_start' = now
    /\ clock' = now
    /\ Goto(i, "calib")
    /\ UNCHANGED <<keyboard_y, too_high_start, cap>>
    /\ UNCHANGED <<atomic, history, runs, named>>

\* line 113: elif time.time() - wrist_above_elbow_start > wrist_elbow_alert_seconds
s_wae_sub(i, now) ==
    /\ At(i, "wae_sub")
    /\ clock' = now
    /\ st' = IF wrist_above_elbow_start = None
             THEN [st EXCEPT ![i] = [Idle EXCEPT !.pc = "TypeError"]]
             ELSE [st EXCEPT ![i].pc = "calib",
                             ![i].wae_alert =
                                 now - wrist_above_elbow_start > wrist_elbow_alert_seconds]
    /\ UNCHANGED <<keyboard_y, too_high_start, wrist_above_elbow_start, cap>>
    /\ UNCHANGED <<atomic, history, runs, named>>

\* line 117: wrist_above_elbow_start = None
s_wae_reset(i) ==
    /\ At(i, "wae_reset")
    /\ wrist_above_elbow_start' = None
    /\ Goto(i, "calib")
    /\ UNCHANGED <<keyboard_y, too_high_start, cap, clock>>
    /\ UNCHANGED <<atomic, history, runs, named>>

\* lines 121-122: if keyboard_y is not None, and the condition on the locals
s_calib(i) ==
    /\ At(i, "calib")
    /\ st' = IF ~Calibrated(keyboard_y) THEN [st EXCEPT ![i].pc = "emit"]
             ELSE IF st[i].hand_landmarks = Unbound
             THEN [st EXCEPT ![i] = [Idle EXCEPT !.pc = "UnboundLocalError"]]
             ELSE IF TooHighCondition(PixelY(st[i].hand_landmarks),
                                      PixelY(st[i].elbow), keyboard_y)
             THEN [st EXCEPT ![i].pc = "th_test"]
             ELSE [st EXCEPT ![i].pc = "th_reset"]
    /\ UNCHANGED <<keyboard_y, too_high_start, wrist_above_elbow_start, cap, clock>>
    /\ UNCHANGED <<atomic, history, runs, named>>

\* line 123: if too_high_start is None
s_th_test(i) ==
    /\ At(i, "th_test")
    /\ Goto(i, IF too_high_start = None THEN "th_arm" ELSE "th_sub")
    /\ UNCHANGED <<keyboard_y, too_high_start, wrist_above_elbow_start, cap, clock>>
    /\ UNCHANGED <<atomic, history, runs, named>>

\* line 124: too_high_start = time.time()
s_th_arm(i, now) ==
    /\ At(i, "th_arm")
    /\ too_high_start' = now
    /\ clock' = now
    /\ Goto(i, "line_a")
    /\ UNCHANGED <<keyboard_y, wrist_above_elbow_start, cap>>
    /\ UNCHANGED <<atomic, history, runs, named>>

\* line 125: elif time.time() - too_high_start > alert_time_seconds
s_th_sub(i, now) ==
    /\ At(i, "th_sub")
    /\ clock' = now
    /\ st' = IF too_high_start = None
             THEN [st EXCEPT ![i] = [Idle EXCEPT !.pc = "TypeError"]]
             ELSE [st EXCEPT ![i].pc = "line_a",
                             ![i].th_alert = now - too_high_start > alert_time_seconds]
    /\ UNCHANGED <<keyboard_y, too_high_start, wrist_above_elbow_start, cap>>
    /\ UNCHANGED <<atomic, history, runs, named>>

\* line 129 with the wrong timer on its left-hand side
s_th_reset_other(i) ==
    /\ At(i, "th_reset")
    /\ wrist_above_elbow_start' = None
    /\ Goto(i, "line_a")
    /\ UNCHANGED <<keyboard_y, too_high_start, cap, clock>>
    /\ UNCHANGED <<atomic, history, runs, named>>

\* line 129: too_high_start = None
s_th_reset(i) ==
    /\ At(i, "th_reset")
    /\ too_high_start' = None
    /\ Goto(i, "line_a")
    /\ UNCHANGED <<keyboard_y, wrist_above_elbow_start, cap, clock>>
    /\ UNCHANGED <<atomic, history, runs, named>>

\* line 131: the first point of the line, (0, keyboard_y)
s_line_a(i) ==
    /\ At(i, "line_a")
    /\ st' = [st EXCEPT ![i].pc = "line_b", ![i].pt1 = keyboard_y]
    /\ UNCHANGED <<keyboard_y, too_high_start, wrist_above_elbow_start, cap, clock>>
    /\ UNCHANGED <<atomic, history, runs, named>>

\* line 131: the second point of the line, (w, keyboard_y), and the drawing
s_line_b(i) ==
    /\ At(i, "line_b")
    /\ st' = [st EXCEPT ![i].pc = "emit", ![i].pt2 = keyboard_y]
    /\ UNCHANGED <<keyboard_y, too_high_start, wrist_above_elbow_start, cap, clock>>
    /\ UNCHANGED <<atomic, history, runs, named>>

\* lines 133-136 and 51: the frame is yielded, the client asks for the next
s_emit(i) ==
    /\ At(i, "emit")
    /\ Goto(i, "read")
    /\ UNCHANGED <<keyboard_y, too_high_start, wrist_above_elbow_start, cap, clock>>
    /\ UNCHANGED <<atomic, history, runs, named>>

\* lines 152-156, in its own thread
s_calibrate(y) ==
    /\ calibrate(y)
    /\ UNCHANGED <<history, runs, named, streams>>

(***************************************************************************)
(* One statement of the generator of response i                            *)
(***************************************************************************)
Step(i, Wrists, Elbows, Times) ==
    \/ \E opened \in BOOLEAN : s_open(i, opened)
    \/ s_close(i)
    \/ \E lost \in BOOLEAN, opened \in BOOLEAN : s_read_fail(i, lost, opened)
    \/ \E wrist \in Wrists, elbow \in Elbows : s_read(i, wrist, elbow)
    \/ s_wae_test(i)
    \/ \E now \in Times : s_wae_arm(i, now)
    \/ \E now \in Times : s_wae_sub(i, now)
    \/ s_wae_reset(i)
    \/ s_calib(i)
    \/ s_th_test(i)
    \/ \E now \in Times : s_th_arm(i, now)
    \/ \E now \in Times : s_th_sub(i, now)
    \/ s_th_reset(i)
    \/ s_line_a(i)
    \/ s_line_b(i)
    \/ s_emit(i)

(***************************************************************************)
(* One video_feed response, statement by statement, with calibrate         *)
(* requests served in between by other threads                             *)
(***************************************************************************)
NextSteps ==
    \/ Step(1, WristYs \cup {None}, ElbowYs \cup {None}, clock..MaxTime)
    \/ \E y \in CalibRows : s_calibrate(y)

SpecSteps == Init /\ [][NextSteps]_vars

(***************************************************************************)
(* Two video_feed responses open together, each generator in a thread of   *)
(* its own, with calibrate requests served in between                      *)
(***************************************************************************)
NextStreams ==
    \/ \E i \in Streams : Step(i, StreamWristYs \cup {None}, ElbowYs, {clock})
    \/ \E y \in StreamRows : s_calibrate(y)

SpecStreams == Init /\ [][NextStreams]_vars

(***************************************************************************)
(* What the last operation was, for the claims                             *)
(***************************************************************************)
FrameShown == last.op = "frame"                 \* a frame was processed and emitted
FrameSeen  == last.op \in {"frame", "raise"}    \* a frame was read and processed
LastBoth   == BothPresent(last.wrist, last.elbow)
LastAbove  == ObservedAbove(last.wrist, last.elbow)
LastTooHigh == ObservedTooHigh(last.wrist, last.elbow)

(***************************************************************************)
(* C1: in an unbroken run of frames with pose and hand detected and        *)
(* wrist_y < elbow_y that began with the wrist-above-elbow timer idle, the *)
(* WRIST ABOVE ELBOW alert is shown in exactly the frames whose time read  *)
(* is strictly more than 2 seconds after that of the first frame of the    *)
(* run: not in the arming frame, not at exactly 2 seconds, and whatever    *)
(* the number and the spacing of the frames.                               *)
(***************************************************************************)
C1_AlertExactlyAfterTwoSeconds ==
    (FrameShown /\ wae_run /= None)
        => (last.wae_alert <=> last.t1 > wae_run + wrist_elbow_alert_seconds)

\* the alert is shown in a run, three seconds after its first frame
C1_Witness ==
    /\ FrameShown /\ wae_run /= None
    /\ last.t1 = wae_run + wrist_elbow_alert_seconds + 1
    /\ last.wae_alert

(***************************************************************************)
(* C2: a frame with pose and hand detected and wrist_y >= elbow_y leaves   *)
(* wrist_above_elbow_start None and shows no WRIST ABOVE ELBOW alert; once *)
(* such a frame has occurred, the alert is shown only in a frame whose     *)
(* time read is more than 2 seconds after that of the next frame with      *)
(* wrist_y < elbow_y (the window restarts there).                          *)
(***************************************************************************)
C2_FalseObservationRestartsWindow ==
    /\ (FrameShown /\ LastBoth /\ ~LastAbove)
          => (wrist_above_elbow_start = None /\ ~last.wae_alert)
    /\ (FrameShown /\ wae_restart /= NoReset /\ last.wae_alert)
          => (wae_restart /= None
              /\ last.t1 > wae_restart + wrist_elbow_alert_seconds)

\* the alert is shown again after a reset, the timer having started anew
C2_Witness ==
    /\ FrameShown /\ last.wae_alert
    /\ wae_restart /= NoReset /\ wae_restart /= None /\ wae_restart > 0
    /\ wrist_above_elbow_start = wae_restart

(***************************************************************************)
(* C3: after any frame in which the wrist is absent (no hand) or the elbow *)
(* is absent (no pose), wrist_above_elbow_start is None.                   *)
(***************************************************************************)
C3_MissingDataResetsWristAboveElbow ==
    (FrameSeen /\ ~LastBoth) => wrist_above_elbow_start = None

(***************************************************************************)
(* C4: processing a frame never raises, and a frame with no hand detected  *)
(* shows neither alert.                                                    *)
(***************************************************************************)
C4_FrameNeverFails ==
    /\ last.op /= "raise"
    /\ (FrameShown /\ last.wrist = None) => (~last.wae_alert /\ ~last.th_alert)

(***************************************************************************)
(* C5: as long as calibrate has not been called (keyboard_y is None),      *)
(* too_high_start is None and no frame shows the WRIST TOO HIGH alert.     *)
(***************************************************************************)
C5_NoTooHighBeforeCalibration ==
    keyboard_y = None => (too_high_start = None /\ ~last.th_alert)

\* uncalibrated, the wrist is seen too high more than 5 seconds into a run
C5_Witness ==
    /\ keyboard_y = None /\ FrameShown /\ LastTooHigh
    /\ wae_run /= None /\ clock > wae_run + alert_time_seconds
    /\ last.wae_alert

(***************************************************************************)
(* C6: after calibration, in an unbroken run of frames with wrist and      *)
(* elbow present and wrist_y < elbow_y - 20, the WRIST TOO HIGH alert is   *)
(* shown in exactly the frames whose time read is strictly more than 5     *)
(* seconds after that of the first frame of the run; a frame with both     *)
(* present and wrist_y >= elbow_y - 20 leaves too_high_start None and      *)
(* shows no WRIST TOO HIGH alert.                                          *)
(***************************************************************************)
C6_TooHighExactlyAfterFiveSeconds ==
    /\ (FrameShown /\ th_run /= None)
          => (last.th_alert <=> clock > th_run + alert_time_seconds)
    /\ (FrameShown /\ keyboard_y /= None /\ LastBoth /\ ~LastTooHigh)
          => (too_high_start = None /\ ~last.th_alert)

(***************************************************************************)
(* C7: after calibration, after any frame in which the wrist is absent or  *)
(* the elbow is absent, too_high_start is None, and no such frame shows    *)
(* the WRIST TOO HIGH alert (the condition is not evaluated on the wrist   *)
(* of an earlier frame).                                                   *)
(***************************************************************************)
C7_MissingDataResetsTooHigh ==
    (FrameSeen /\ keyboard_y /= None /\ ~LastBoth)
        => (too_high_start = None /\ ~last.th_alert)

(***************************************************************************)
(* C8: in every frame, each alert is shown if and only if its timer's      *)
(* start is not None after the frame and the frame's time read exceeds the *)
(* start by more than the timer's threshold.                               *)
(***************************************************************************)
C8_AlertIffArmedPastThreshold ==
    FrameShown =>
        /\ last.wae_alert <=>
              (wrist_above_elbow_start /= None
               /\ last.t1 - wrist_above_elbow_start > wrist_elbow_alert_seconds)
        /\ last.th_alert <=>
              (too_high_start /= None
               /\ clock - too_high_start > alert_time_seconds)

(***************************************************************************)
(* C9: two runs that see the same frames and are calibrated at the same    *)
(* points with rows of their own agree, after every operation, on both     *)
(* timer starts, on being calibrated, on the alerts shown and on the frame *)
(* failing; only the row of the drawn line differs.                        *)
(***************************************************************************)
C9_CalibratedRowDoesNotInfluenceAlerts ==
    /\ twin.too_high_start = too_high_start
    /\ twin.wrist_above_elbow_start = wrist_above_elbow_start
    /\ (twin.keyboard_y = None) <=> (keyboard_y = None)
    /\ twin.wae_alert = last.wae_alert
    /\ twin.th_alert = last.th_alert
    /\ twin.raised <=> (last.op = "raise")
    /\ (twin.line = None) <=> (last.line = None)

\* both runs show WRIST TOO HIGH, each with its line at another row
C9_Witness ==
    /\ FrameShown /\ last.th_alert /\ twin.th_alert
    /\ last.line /= None /\ twin.line /= None /\ twin.line /= last.line

(***************************************************************************)
(* C10: a run in which every calibrate(y) is made twice in a row is, after *)
(* every operation, in the same state (keyboard_y, both timer starts) as   *)
(* the run in which it is made once, and shows the same alerts and the     *)
(* same reference line in every frame.                                     *)
(***************************************************************************)
C10_CalibrateIdempotent ==
    /\ twice.keyboard_y = keyboard_y
    /\ twice.too_high_start = too_high_start
    /\ twice.wrist_above_elbow_start = wrist_above_elbow_start
    /\ twice.hand_landmarks = hand_landmarks
    /\ twice.wae_alert = last.wae_alert
    /\ twice.th_alert = last.th_alert
    /\ twice.line = last.line
    /\ twice.raised <=> (last.op = "raise")

\* a calibrated frame shows the line and WRIST TOO HIGH in both runs
C10_Witness ==
    /\ FrameShown /\ keyboard_y /= None
    /\ twice.line = keyboard_y /\ last.line = keyboard_y
    /\ last.th_alert /\ twice.th_alert

(***************************************************************************)
(* C11: calibrate(y) leaves keyboard_y = y whatever it was before, leaves  *)
(* wrist_above_elbow_start and too_high_start as they were, and no         *)
(* operation takes keyboard_y from a row back to None.                     *)
(***************************************************************************)
C11_CalibrateOnlySetsKeyboardY ==
    [][/\ op'.name = "calibrate"
          => /\ keyboard_y' = op'.arg
             /\ UNCHANGED <<too_high_start, wrist_above_elbow_start>>
       /\ keyboard_y /= None => keyboard_y' /= None]_vars

\* calibrate has set the row 300 while both timers were armed
C11_Witness ==
    /\ op = Op("calibrate", 300) /\ keyboard_y = 300
    /\ too_high_start /= None /\ wrist_above_elbow_start /= None

(***************************************************************************)
(* C13 as stated: the iteration in which cap.read() fails leaves           *)
(* keyboard_y and both timer starts unchanged, shows no alert, emits no    *)
(* frame, and the loop goes on to the next read.                           *)
(***************************************************************************)
C13_FailedReadAlwaysContinues ==
    [][op'.name = "read_fail"
          => /\ UNCHANGED <<keyboard_y, too_high_start, wrist_above_elbow_start>>
             /\ last' = NoFrame
             /\ gen' = "running"]_vars

(***************************************************************************)
(* C13 as amended: the iteration in which cap.read() fails leaves          *)
(* keyboard_y and both timer starts unchanged, shows no alert and emits no *)
(* frame; the loop goes on to the next read unless the camera is no longer *)
(* opened and cannot be opened again, and then the generator ends with     *)
(* the RuntimeError of ensure_camera.                                      *)
(***************************************************************************)
C13_FailedReadLeavesAlertState ==
    [][op'.name = "read_fail"
          => /\ UNCHANGED <<keyboard_y, too_high_start, wrist_above_elbow_start>>
             /\ last' = NoFrame
             /\ (gen' = "running" /\ cap' = "opened")
                   \/ (gen' = "closed" /\ cap' = "closed")]_vars

\* a read has failed with both timers armed, and the loop goes on
C13_Witness ==
    /\ op.name = "read_fail" /\ gen = "running"
    /\ keyboard_y /= None /\ too_high_start /= None
    /\ wrist_above_elbow_start /= None

(***************************************************************************)
(* C15: every emitted frame carries the reference line at row keyboard_y   *)
(* when keyboard_y is set and no reference line when it is None, whether   *)
(* or not pose or hand was detected in the frame.                          *)
(***************************************************************************)
C15_LineIffCalibrated ==
    FrameShown => last.line = keyboard_y

(***************************************************************************)
(* C16: every frame that shows the WRIST TOO HIGH alert shows the WRIST    *)
(* ABOVE ELBOW alert as well.                                              *)
(***************************************************************************)
C16_TooHighImpliesAboveElbow ==
    (FrameShown /\ last.th_alert) => last.wae_alert

(***************************************************************************)
(* The statements that evaluate each condition                             *)
(***************************************************************************)
WaeLines == {"wae_test", "wae_arm", "wae_sub", "wae_reset"}
ThLines  == {"calib", "th_test", "th_arm", "th_sub", "th_reset"}

(***************************************************************************)
(* C12: the two timers are independent: no statement that evaluates the    *)
(* wrist-above-elbow condition writes too_high_start, no statement that    *)
(* evaluates the too-high condition writes wrist_above_elbow_start, and    *)
(* each start is written only by the statements of its own condition.      *)
(* (That both alerts can be shown in one frame is the witness.)            *)
(***************************************************************************)
C12_TimersIndependent ==
    [][/\ \A i \in Streams :
            /\ (st[i].pc \in WaeLines /\ st'[i] /= st[i])
                  => too_high_start' = too_high_start
            /\ (st[i].pc \in ThLines /\ st'[i] /= st[i])
                  => wrist_above_elbow_start' = wrist_above_elbow_start
       /\ too_high_start' /= too_high_start
             => \E i \in Streams : st[i].pc \in ThLines /\ st'[i] /= st[i]
       /\ wrist_above_elbow_start' /= wrist_above_elbow_start
             => \E i \in Streams : st[i].pc \in WaeLines /\ st'[i] /= st[i]]_vars

\* a frame is emitted with WRIST ABOVE ELBOW and WRIST TOO HIGH both drawn
C12_Witness ==
    \E i \in Streams : At(i, "emit") /\ st[i].wae_alert /\ st[i].th_alert

(***************************************************************************)
(* C14: with calibrate served between any two statements of the loop, one  *)
(* frame uses one value of keyboard_y: both end points of the reference    *)
(* line of an emitted frame are at the same row, and no frame fails on a   *)
(* value of keyboard_y that changed under it.                              *)
(***************************************************************************)
C14_FrameSeesOneKeyboardY ==
    \A i \in Streams :
        /\ At(i, "emit") => st[i].pt1 = st[i].pt2
        /\ ~At(i, "TypeError")

(***************************************************************************)
(* C17: with two video_feed responses open, under every interleaving of    *)
(* their statements, no generator subtracts from a start that is None: no  *)
(* stream ends with the TypeError of line 113 or line 125.                 *)
(***************************************************************************)
C17_NoSubtractionFromUnsetStart ==
    \A i \in Streams : st[i].pc /= "TypeError"

====
